---- MODULE Spec2Model ----
(***************************************************************************)
(* A model of the tile canvas of src/src/lib.rs (struct ImageBuffer).      *)
(*                                                                         *)
(* The pixel buffer `data` is the flat RGBA byte array of the source,      *)
(* indexed from 0.  A scale factor (an f32 in the source) is a pair        *)
(* <<num, den>> with den a power of two, so every scale of the model is an *)
(* exact f32; for the image and tile sizes of the model the f32 products   *)
(* and quotients of the source equal the exact integer expressions used    *)
(* here.  A decoded image is a record [id, w, h, valid]; image::load_from_ *)
(* memory fails exactly on the images with valid = FALSE.                  *)
(***************************************************************************)
EXTENDS Integers, Sequences, FiniteSets

VARIABLES
    tile_width, tile_height, num_cols, num_rows, width, height,
    data, loaded_tiles,
    background_r, background_g, background_b, background_a,
    call,       \* the last call made on the buffer, its arguments and result
    calls,      \* number of calls made so far
    composited  \* per cell, the tile rectangle as its last successful load left it

grid == <<tile_width, tile_height, num_cols, num_rows, width, height>>
background == <<background_r, background_g, background_b, background_a>>
vars == <<tile_width, tile_height, num_cols, num_rows, width, height,
          data, loaded_tiles,
          background_r, background_g, background_b, background_a,
          call, calls, composited>>

----------------------------------------------------------------------------
(* Bounds of the model *)

\* calls made on one buffer
MaxCalls == 3
\* frame counters handed to generate_pattern: 0..MaxFrame
MaxFrame == 1

(* Program constants *)

\* background_r/g/b/a after new()
DefaultBackground == 255
\* the alpha byte written by generate_pattern
PatternAlpha == 255

----------------------------------------------------------------------------
(* Inputs *)

\* <<tile_width, tile_height, num_cols, num_rows>> handed to new(): canvases
\* of two tiles, side by side and stacked, and canvases of one tile
Grids == { <<3, 3, 2, 1>>, <<2, 4, 1, 2>>,
           <<3, 3, 1, 1>>, <<4, 4, 1, 1>>, <<4, 2, 1, 1>>, <<2, 5, 1, 1>> }

\* A canvas of two tiles gets every operation, its loads with few images,
\* scales and offsets.  A canvas of one tile gets only successful loads and
\* background changes, the loads with every image, scale and offset below.
OneTile == num_cols * num_rows = 1

WideImage   == [id |-> 1, w |-> 8, h |-> 4, valid |-> TRUE]
SquareImage == [id |-> 2, w |-> 4, h |-> 4, valid |-> TRUE]
TallImage   == [id |-> 3, w |-> 4, h |-> 8, valid |-> TRUE]
BadImage    == [id |-> 4, w |-> 0, h |-> 0, valid |-> FALSE]
NoImage     == [id |-> 0, w |-> 0, h |-> 0, valid |-> FALSE]
ValidImages ==
    IF OneTile THEN {WideImage, SquareImage, TallImage}
               ELSE {WideImage}

Scales ==
    IF OneTile
    THEN { <<-1, 1>>, <<0, 1>>, <<1, 4>>, <<1, 2>>, <<1, 1>>, <<3, 2>>, <<2, 1>> }
    ELSE { <<1, 2>>, <<2, 1>> }
Offsets ==
    IF OneTile THEN { <<0, 0>>, <<1, -1>>, <<-9, 9>> } ELSE { <<1, -1>> }
Colors == { <<10, 20, 30, 255>>, <<255, 255, 255, 255>> }
Frames == IF OneTile THEN {} ELSE 0..MaxFrame

Cells == (0..(num_cols - 1)) \X (0..(num_rows - 1))
\* one column right of the grid, one row below it
OutOfGrid == IF OneTile THEN {} ELSE { <<num_cols, 0>>, <<0, num_rows>> }
\* <<col, row>> of a clear_tile
Positions == IF OneTile THEN {} ELSE Cells \cup OutOfGrid

\* <<image, <<col, row>>>> of a load: every valid image at every cell, an
\* image at each position outside the grid, undecodable bytes at a cell
LoadArgs ==
    (ValidImages \X Cells) \cup ({WideImage} \X OutOfGrid)
        \cup (IF OneTile THEN {} ELSE {<<BadImage, <<0, 0>>>>})

----------------------------------------------------------------------------
(* Helpers *)

Min(a, b) == IF a <= b THEN a ELSE b
Max(a, b) == IF a >= b THEN a ELSE b

\* f64::round of the quotient a/b of two naturals (half away from zero)
RoundDiv(a, b) == (2 * a + b) \div (2 * b)

\* `(t as f32 * scale) as u32`: the cast truncates and saturates at 0
ScaledDim(t, scale) ==
    IF scale[1] <= 0 THEN 0 ELSE (t * scale[1]) \div scale[2]

\* `scale >= 1.0`
ScaleAtLeastOne(scale) == scale[1] >= scale[2]

\* new_width, new_height of resize_preserve_aspect_ratio
FitDims(original_width, original_height, target_width, target_height) ==
    IF target_width * original_height <= target_height * original_width
    THEN \* scale = scale_x
         << target_width,
            (original_height * target_width) \div original_width >>
    ELSE \* scale = scale_y
         << (original_width * target_height) \div original_height,
            target_height >>

\* The dimensions DynamicImage::resize(nwidth, nheight, _) gives an image of
\* original_width x original_height: the largest size of the same aspect
\* ratio within the bounds, rounded, and at least 1 x 1.
ResizeDims(original_width, original_height, nwidth, nheight) ==
    IF nwidth * original_height <= nheight * original_width
    THEN << Max(RoundDiv(original_width * nwidth, original_width), 1),
            Max(RoundDiv(original_height * nwidth, original_width), 1) >>
    ELSE << Max(RoundDiv(original_width * nheight, original_height), 1),
            Max(RoundDiv(original_height * nheight, original_height), 1) >>

\* <<actual_width, actual_height>>: the size of rgba_img
ActualDims(img, scale) ==
    LET scaled_width  == ScaledDim(tile_width, scale)
        scaled_height == ScaledDim(tile_height, scale)
        new == FitDims(img.w, img.h, scaled_width, scaled_height)
    IN  ResizeDims(img.w, img.h, new[1], new[2])

\* rgba_img.get_pixel(sx, sy): the resampled image labels each of its pixels
\* with its own coordinates; alpha 200 tells an image pixel from the pattern
\* and from every background color of the model.
GetPixel(img, sx, sy) == << 10 + sx, 10 + sy, img.id, 200 >>

----------------------------------------------------------------------------
(* Pattern *)

\* floor(sin(v + frame * k) * 127 + 128) as computed in f32 and cast to u8,
\* tabulated for frame 0..3 (outer index frame + 1, inner index v + 1).
\* k = 0.1 (red)
SinRed ==
    << << 128, 234, 243, 145, 31, 6, 92, 211, 253, 180, 58, 1 >>,
       << 140, 241, 237, 133, 24, 10, 104, 220, 251, 168, 48, 1 >>,
       << 153, 246, 230, 120, 17, 15, 117, 228, 247, 156, 39, 3 >>,
       << 165, 250, 222, 107, 11, 22, 130, 236, 242, 143, 30, 6 >> >>
\* k = 0.15 (green)
SinGreen ==
    << << 128, 234, 243, 145, 31, 6, 92, 211, 253, 180, 58, 1 >>,
       << 146, 243, 234, 126, 20, 12, 111, 224, 249, 162, 43, 2 >>,
       << 165, 250, 222, 107, 11, 22, 130, 236, 242, 143, 30, 6 >>,
       << 183, 254, 208, 89, 5, 34, 149, 244, 233, 124, 19, 13 >> >>
\* k = 0.2 (blue)
SinBlue ==
    << << 128, 234, 243, 145, 31, 6, 92, 211, 253, 180, 58, 1,
          59, 181, 253, 210, 91, 5, 32, 147 >>,
       << 153, 246, 230, 120, 17, 15, 117, 228, 247, 156, 39, 3,
          82, 203, 254, 189, 68, 1, 51, 171 >>,
       << 177, 253, 213, 95, 7, 29, 142, 242, 236, 131, 22, 11,
          106, 222, 250, 166, 46, 1, 72, 194 >>,
       << 199, 254, 193, 71, 1, 47, 167, 250, 221, 105, 10, 23,
          132, 237, 241, 141, 29, 7, 96, 214 >> >>

\* <<r, g, b, a>> of generate_pattern at pixel (x, y)
PatternPixel(x, y, frame) ==
    << SinRed[frame + 1][x + 1], SinGreen[frame + 1][y + 1],
       SinBlue[frame + 1][x + y + 1], PatternAlpha >>

----------------------------------------------------------------------------
(* Occupancy *)

TileInfo(col, row) == [col |-> col, row |-> row, has_image |-> TRUE]

\* loaded_tiles.retain(|tile| tile.col != col || tile.row != row)
Retain(tiles, col, row) ==
    SelectSeq(tiles, LAMBDA tile : tile.col # col \/ tile.row # row)

\* push without the retain: a second load of a cell adds a second record
UpsertKeepsOld(tiles, col, row) == Append(tiles, TileInfo(col, row))

\* retain, then push
Upsert(tiles, col, row) == Append(Retain(tiles, col, row), TileInfo(col, row))

is_tile_loaded(col, row) ==
    \E i \in 1..Len(loaded_tiles) :
        /\ loaded_tiles[i].col = col
        /\ loaded_tiles[i].row = row
        /\ loaded_tiles[i].has_image

\* the rectangle test with the right and bottom edges included
PixelInTileInclusive(tile_info, x, y) ==
    LET tile_start_x == tile_info.col * tile_width
        tile_start_y == tile_info.row * tile_height
        tile_end_x == tile_start_x + tile_width
        tile_end_y == tile_start_y + tile_height
    IN  x >= tile_start_x /\ x <= tile_end_x /\ y >= tile_start_y /\ y <= tile_end_y

\* the rectangle test of one occupancy record
PixelInTile(tile_info, x, y) ==
    LET tile_start_x == tile_info.col * tile_width
        tile_start_y == tile_info.row * tile_height
        tile_end_x == tile_start_x + tile_width
        tile_end_y == tile_start_y + tile_height
    IN  x >= tile_start_x /\ x < tile_end_x /\ y >= tile_start_y /\ y < tile_end_y

is_pixel_in_loaded_tile(x, y) ==
    \E i \in 1..Len(loaded_tiles) :
        loaded_tiles[i].has_image /\ PixelInTile(loaded_tiles[i], x, y)

----------------------------------------------------------------------------
(* Writing a tile *)

\* dst_index with the tile's width as the row stride instead of the buffer's
DstIndexTileStride(tile_start_x, tile_start_y, x, y) ==
    ((tile_start_y + y) * tile_width + (tile_start_x + x)) * 4

\* dst_index of local pixel (x, y) of the tile starting at (tile_start_x, tile_start_y)
DstIndex(tile_start_x, tile_start_y, x, y) ==
    ((tile_start_y + y) * width + (tile_start_x + x)) * 4

\* self.data[dst_index .. dst_index + 3] = pixel, under `dst_index + 3 < len`
PutPixel(d, dst_index, pixel) ==
    IF dst_index + 3 < width * height * 4
    THEN [d EXCEPT ![dst_index] = pixel[1], ![dst_index + 1] = pixel[2],
                   ![dst_index + 2] = pixel[3], ![dst_index + 3] = pixel[4]]
    ELSE d

\* The loop `for y in 0..tile_height { for x in 0..tile_width { ... } }` from
\* its k-th iteration on; pix[<<x, y>>] is the pixel written at local (x, y).
RECURSIVE WriteTile(_, _, _, _, _)
WriteTile(d, k, tile_start_x, tile_start_y, pix) ==
    IF k >= tile_width * tile_height THEN d
    ELSE LET x == k % tile_width
             y == k \div tile_width
         IN  WriteTile(PutPixel(d, DstIndex(tile_start_x, tile_start_y, x, y),
                                pix[<<x, y>>]),
                       k + 1, tile_start_x, tile_start_y, pix)

LocalPixels == (0..(tile_width - 1)) \X (0..(tile_height - 1))

\* The pixel a load writes at local (x, y): the image pixel at the source
\* coordinates, or the background color outside the image.
\* off = <<src_offset_x, src_offset_y, dst_offset_x, dst_offset_y>>
SourcePixel(img, actual, off, bg, x, y) ==
    LET src_x == x - off[3] + off[1]
        src_y == y - off[4] + off[2]
    IN  IF src_x >= 0 /\ src_y >= 0 /\ src_x < actual[1] /\ src_y < actual[2]
        THEN GetPixel(img, src_x, src_y)
        ELSE bg

\* the load loop over the tile
Composite(d, img, col, row, actual, off, bg) ==
    WriteTile(d, 0, col * tile_width, row * tile_height,
              [p \in LocalPixels |-> SourcePixel(img, actual, off, bg, p[1], p[2])])

\* clear_tile removing the record only: the rectangle keeps its pixels
FillTileKeepsPixels(d, col, row, bg) == d

\* clear_tile filling with transparent black instead of the background color
FillTileTransparent(d, col, row, bg) ==
    WriteTile(d, 0, col * tile_width, row * tile_height,
              [p \in LocalPixels |-> <<0, 0, 0, 0>>])

\* the clear_tile loop
FillTile(d, col, row, bg) ==
    WriteTile(d, 0, col * tile_width, row * tile_height,
              [p \in LocalPixels |-> bg])

----------------------------------------------------------------------------
(* Placement *)

\* a.saturating_sub(b)
SaturatingSub(a, b) == IF a >= b THEN a - b ELSE 0

\* x.max(lo).min(hi)
Clamp(x, lo, hi) == Min(Max(x, lo), hi)

\* the crop taken whole from the left and the top instead of half from each side
ScaleOffsetsCropOneSide(actual, scale) ==
    IF ScaleAtLeastOne(scale)
    THEN << SaturatingSub(actual[1], tile_width),
            SaturatingSub(actual[2], tile_height), 0, 0 >>
    ELSE << 0, 0, (tile_width - actual[1]) \div 2,
            (tile_height - actual[2]) \div 2 >>

\* load_image_from_bytes_with_scale:
\* <<src_offset_x, src_offset_y, dst_offset_x, dst_offset_y>>
ScaleOffsets(actual, scale) ==
    IF ScaleAtLeastOne(scale)
    THEN LET crop_x == SaturatingSub(actual[1], tile_width) \div 2
             crop_y == SaturatingSub(actual[2], tile_height) \div 2
         IN  << crop_x, crop_y, 0, 0 >>
    ELSE LET center_x == (tile_width - actual[1]) \div 2
             center_y == (tile_height - actual[2]) \div 2
         IN  << 0, 0, center_x, center_y >>

\* one axis of load_image_from_bytes_with_scale_and_offset:
\* <<src_offset, dst_offset>>
AxisOffsets(actual_extent, tile_extent, offset) ==
    LET base_dst == IF actual_extent <= tile_extent
                    THEN (tile_extent - actual_extent) \div 2
                    ELSE 0
        dst_offset == Clamp(base_dst + offset, -actual_extent, tile_extent)
        src_offset ==
            IF actual_extent > tile_extent
            THEN LET base_crop == (actual_extent - tile_extent) \div 2
                 IN  Clamp(base_crop - offset, 0,
                           SaturatingSub(actual_extent, tile_extent))
            ELSE 0
    IN  << src_offset, dst_offset >>

\* load_image_from_bytes_with_scale_and_offset:
\* <<src_offset_x, src_offset_y, dst_offset_x, dst_offset_y>>
OffsetOffsets(actual, offset_x, offset_y) ==
    LET ax == AxisOffsets(actual[1], tile_width, offset_x)
        ay == AxisOffsets(actual[2], tile_height, offset_y)
    IN  << ax[1], ay[1], ax[2], ay[2] >>

----------------------------------------------------------------------------
(* Reading the buffer: row-major RGBA, four bytes a pixel *)

\* <<r, g, b, a>> of the pixel (gx, gy) of the whole buffer
PixelAt(d, gx, gy) ==
    LET i == 4 * (gy * width + gx)
    IN  << d[i], d[i + 1], d[i + 2], d[i + 3] >>

\* the rectangle of tile (col, row), by local coordinates
TileContents(d, col, row) ==
    [p \in LocalPixels |->
        PixelAt(d, col * tile_width + p[1], row * tile_height + p[2])]

----------------------------------------------------------------------------
(* The buffer after construction: ImageBuffer::new *)

Call(op, result, col, row, img, scale, offset_x, offset_y, frame) ==
    [op |-> op, result |-> result, col |-> col, row |-> row, img |-> img,
     scale |-> scale, offset_x |-> offset_x, offset_y |-> offset_y,
     frame |-> frame]

Init ==
    \E g \in Grids :
        /\ tile_width = g[1]
        /\ tile_height = g[2]
        /\ num_cols = g[3]
        /\ num_rows = g[4]
        /\ width = g[1] * g[3]
        /\ height = g[2] * g[4]
        /\ data = [i \in 0..(g[1] * g[3] * g[2] * g[4] * 4 - 1) |-> 0]
        /\ loaded_tiles = << >>
        /\ background_r = DefaultBackground
        /\ background_g = DefaultBackground
        /\ background_b = DefaultBackground
        /\ background_a = DefaultBackground
        /\ call = Call("new", "Ok", 0, 0, NoImage, <<1, 1>>, 0, 0, 0)
        /\ calls = 0
        /\ composited = [c \in (0..(g[3] - 1)) \X (0..(g[4] - 1)) |->
                            [p \in (0..(g[1] - 1)) \X (0..(g[2] - 1)) |->
                                <<0, 0, 0, 0>>]]

----------------------------------------------------------------------------
(* Operations *)

set_background_color(r, g, b, a) ==
    /\ calls < MaxCalls
    /\ background_r' = r
    /\ background_g' = g
    /\ background_b' = b
    /\ background_a' = a
    /\ call' = Call("set_background_color", "Ok", 0, 0, NoImage, <<1, 1>>, 0, 0, 0)
    /\ calls' = calls + 1
    /\ UNCHANGED << grid, data, loaded_tiles, composited >>

\* the buffer generate_pattern(frame) leaves
PatternData(d, frame) ==
    [i \in DOMAIN d |->
        LET x == (i \div 4) % width
            y == (i \div 4) \div width
        IN  IF is_pixel_in_loaded_tile(x, y)
            THEN d[i]
            ELSE PatternPixel(x, y, frame)[(i % 4) + 1]]

generate_pattern(frame) ==
    /\ calls < MaxCalls
    /\ data' = PatternData(data, frame)
    /\ call' = Call("generate_pattern", "Ok", 0, 0, NoImage, <<1, 1>>, 0, 0, frame)
    /\ calls' = calls + 1
    /\ UNCHANGED << grid, loaded_tiles, background, composited >>

\* the bounds check off by one: `>` for `>=`
InvalidTilePositionOffByOne(col, row) == col > num_cols \/ row > num_rows

\* `col >= self.num_cols || row >= self.num_rows`
InvalidTilePosition(col, row) == col >= num_cols \/ row >= num_rows

\* history: the rectangle of cell (col, row) as the load that just wrote d left it
Remember(history, d, col, row) ==
    [c \in Cells |->
        IF c = << col, row >> THEN TileContents(d, col, row) ELSE history[c]]

\* the buffer a load with the placement rule of load_image_from_bytes_with_scale leaves
ScaleData(d, img, col, row, scale) ==
    LET actual == ActualDims(img, scale)
    IN  Composite(d, img, col, row, actual, ScaleOffsets(actual, scale), background)

\* the buffer load_image_from_bytes_with_scale_and_offset leaves
OffsetData(d, img, col, row, scale, offset_x, offset_y) ==
    LET actual == ActualDims(img, scale)
    IN  Composite(d, img, col, row, actual,
                  OffsetOffsets(actual, offset_x, offset_y), background)

\* load_image_from_bytes_with_scale, called as `op`
LoadWithScale(op, img, col, row, scale) ==
    /\ calls < MaxCalls
    /\ calls' = calls + 1
    /\ UNCHANGED << grid, background >>
    /\ IF InvalidTilePosition(col, row)
       THEN /\ call' = Call(op, "InvalidTilePosition", col, row, img, scale, 0, 0, 0)
            /\ UNCHANGED << data, loaded_tiles, composited >>
       ELSE IF ~img.valid
       THEN /\ call' = Call(op, "DecodeError", col, row, img, scale, 0, 0, 0)
            /\ UNCHANGED << data, loaded_tiles, composited >>
       ELSE /\ loaded_tiles' = Upsert(loaded_tiles, col, row)
            /\ data' = ScaleData(data, img, col, row, scale)
            /\ composited' = Remember(composited, data', col, row)
            /\ call' = Call(op, "Ok", col, row, img, scale, 0, 0, 0)

load_image_from_bytes_with_scale(img, col, row, scale) ==
    LoadWithScale("load_image_from_bytes_with_scale", img, col, row, scale)

load_image_from_bytes(img, col, row) ==
    LoadWithScale("load_image_from_bytes", img, col, row, <<1, 1>>)

load_image_from_bytes_with_scale_and_offset(img, col, row, scale, offset_x, offset_y) ==
    /\ calls < MaxCalls
    /\ calls' = calls + 1
    /\ UNCHANGED << grid, background >>
    /\ LET op == "load_image_from_bytes_with_scale_and_offset" IN
       IF InvalidTilePosition(col, row)
       THEN /\ call' = Call(op, "InvalidTilePosition", col, row, img, scale,
                            offset_x, offset_y, 0)
            /\ UNCHANGED << data, loaded_tiles, composited >>
       ELSE IF ~img.valid
       THEN /\ call' = Call(op, "DecodeError", col, row, img, scale,
                            offset_x, offset_y, 0)
            /\ UNCHANGED << data, loaded_tiles, composited >>
       ELSE /\ loaded_tiles' = Upsert(loaded_tiles, col, row)
            /\ data' = OffsetData(data, img, col, row, scale, offset_x, offset_y)
            /\ composited' = Remember(composited, data', col, row)
            /\ call' = Call(op, "Ok", col, row, img, scale, offset_x, offset_y, 0)

clear_tile(col, row) ==
    /\ calls < MaxCalls
    /\ calls' = calls + 1
    /\ UNCHANGED << grid, background >>
    /\ IF InvalidTilePosition(col, row)
       THEN /\ call' = Call("clear_tile", "InvalidTilePosition", col, row,
                            NoImage, <<1, 1>>, 0, 0, 0)
            /\ UNCHANGED << data, loaded_tiles, composited >>
       ELSE /\ loaded_tiles' = Retain(loaded_tiles, col, row)
            /\ data' = FillTile(data, col, row, background)
            /\ UNCHANGED composited
            /\ call' = Call("clear_tile", "Ok", col, row, NoImage, <<1, 1>>, 0, 0, 0)

----------------------------------------------------------------------------
(* The buffer under any sequence of calls *)

SetBackground == \E c \in Colors : set_background_color(c[1], c[2], c[3], c[4])
Pattern == \E frame \in Frames : generate_pattern(frame)
Load == \E a \in LoadArgs : load_image_from_bytes(a[1], a[2][1], a[2][2])
LoadScale ==
    \E a \in LoadArgs, scale \in Scales :
        load_image_from_bytes_with_scale(a[1], a[2][1], a[2][2], scale)
LoadScaleOffset ==
    \E a \in LoadArgs, scale \in Scales, o \in Offsets :
        load_image_from_bytes_with_scale_and_offset(a[1], a[2][1], a[2][2],
                                                    scale, o[1], o[2])
Clear == \E p \in Positions : clear_tile(p[1], p[2])

Next == SetBackground \/ Pattern \/ Load \/ LoadScale \/ LoadScaleOffset \/ Clear

Spec == Init /\ [][Next]_vars

----------------------------------------------------------------------------
(* Vocabulary of the properties *)

LoadOps == { "load_image_from_bytes", "load_image_from_bytes_with_scale",
             "load_image_from_bytes_with_scale_and_offset" }

\* the global pixels of the buffer
AllPixels == (0..(width - 1)) \X (0..(height - 1))

\* the cell whose rectangle holds the global pixel (gx, gy)
CellOf(gx, gy) == << gx \div tile_width, gy \div tile_height >>

\* the records of cell (col, row)
Records(tiles, col, row) ==
    { i \in 1..Len(tiles) : tiles[i].col = col /\ tiles[i].row = row }

\* the occupancy records of the cells other than (col, row), in order
OtherRecords(tiles, col, row) ==
    SelectSeq(tiles, LAMBDA tile : << tile.col, tile.row >> # << col, row >>)

\* the pixels of the resampled image of a load
ImagePixels(img, scale) ==
    LET actual == ActualDims(img, scale)
    IN  { GetPixel(img, sx, sy) :
            sx \in 0..(actual[1] - 1), sy \in 0..(actual[2] - 1) }

\* some image's pixel (alpha 200 is written by no fill and no pattern)
IsImagePixel(pixel) == pixel[4] = 200

\* the last call was a load that returned Ok
LoadedOk == call.op \in LoadOps /\ call.result = "Ok"

----------------------------------------------------------------------------
\* C1: a load (by any of the three entry points) or a clear_tile at a position
\* with col >= num_cols or row >= num_rows returns the invalid-tile-position
\* error and changes neither a byte of the pixel buffer nor the occupancy
\* records.
C1_OutOfGridRejected ==
    [][ ( /\ call'.op \in LoadOps \cup {"clear_tile"}
          /\ (call'.col >= num_cols \/ call'.row >= num_rows) )
        => /\ call'.result = "InvalidTilePosition"
           /\ data' = data
           /\ loaded_tiles' = loaded_tiles ]_vars

\* a load outside the grid was rejected on a canvas that holds an image
C1_Witness ==
    /\ call.op = "load_image_from_bytes_with_scale_and_offset"
    /\ call.col >= num_cols
    /\ call.result = "InvalidTilePosition"
    /\ Len(loaded_tiles) > 0

\* C2: after a successful load into a cell of the grid is_tile_loaded is true
\* of that cell and the occupancy list holds exactly one record for it; no
\* cell ever has more than one record.
C2_OneRecordPerCell ==
    /\ \A i, j \in 1..Len(loaded_tiles) :
          ( /\ loaded_tiles[i].col = loaded_tiles[j].col
            /\ loaded_tiles[i].row = loaded_tiles[j].row ) => i = j
    /\ LoadedOk =>
          /\ is_tile_loaded(call.col, call.row)
          /\ Cardinality(Records(loaded_tiles, call.col, call.row)) = 1

\* the third call loaded a cell with success, and one cell is occupied
C2_Witness ==
    /\ LoadedOk
    /\ calls = 3
    /\ Len(loaded_tiles) = 1
    /\ ~OneTile

\* C3: generate_pattern(frame) leaves every pixel of an occupied tile as it
\* was and sets every pixel of an unoccupied tile to the pattern function of
\* (x, y, frame) with alpha 255, whatever the pixel held.
C3_PatternSkipsOccupied ==
    [][ call'.op = "generate_pattern"
        => \A p \in AllPixels :
              PixelAt(data', p[1], p[2]) =
                  IF Records(loaded_tiles, CellOf(p[1], p[2])[1],
                             CellOf(p[1], p[2])[2]) # {}
                  THEN PixelAt(data, p[1], p[2])
                  ELSE PatternPixel(p[1], p[2], call'.frame) ]_vars

\* a pattern was generated on a canvas with one tile occupied and one free
C3_Witness ==
    /\ call.op = "generate_pattern"
    /\ Len(loaded_tiles) = 1
    /\ Cardinality(Cells) = 2

\* C4: a successful load into tile (col, row) sets every pixel of the tile's
\* rectangle to a pixel of the resampled image or to the current background
\* color, and changes no pixel outside the rectangle.
C4_LoadWritesExactlyTheTile ==
    [][ ( call'.op \in LoadOps /\ call'.result = "Ok" )
        => \A p \in AllPixels :
              IF CellOf(p[1], p[2]) = << call'.col, call'.row >>
              THEN PixelAt(data', p[1], p[2])
                      \in ImagePixels(call'.img, call'.scale) \cup {background}
              ELSE PixelAt(data', p[1], p[2]) = PixelAt(data, p[1], p[2]) ]_vars

\* a load with an offset succeeded next to an occupied tile
C4_Witness ==
    /\ LoadedOk
    /\ call.op = "load_image_from_bytes_with_scale_and_offset"
    /\ call.offset_x # 0
    /\ Len(loaded_tiles) = 2

----------------------------------------------------------------------------
\* C5: load_image_from_bytes (scale 1.0, no offset) fits the image into the
\* tile, centers it on both axes and pads the rest with the background color:
\* an image twice as wide as high in a square tile takes the full width and
\* the middle rows, with as many background rows above as below.
C5_PlainLoadCentered ==
    ( call.op = "load_image_from_bytes" /\ call.result = "Ok" )
    => LET actual == ActualDims(call.img, <<1, 1>>)
           left == (tile_width - actual[1]) \div 2
           top == (tile_height - actual[2]) \div 2
       IN  \A p \in LocalPixels :
              TileContents(data, call.col, call.row)[p] =
                  IF /\ p[1] >= left /\ p[1] < left + actual[1]
                     /\ p[2] >= top /\ p[2] < top + actual[2]
                  THEN GetPixel(call.img, p[1] - left, p[2] - top)
                  ELSE background

\* C6: a load with scale > 1.0 and no offset fills the tile with the center
\* of the fitted image: every pixel of the rectangle is an image pixel, none
\* is background (as stated, for an image of any aspect ratio).
C6_ScaledLoadFillsTile ==
    ( /\ call.op = "load_image_from_bytes_with_scale"
      /\ call.result = "Ok"
      /\ call.scale[1] > call.scale[2] )
    => \A p \in LocalPixels :
          IsImagePixel(TileContents(data, call.col, call.row)[p])

\* C6, amended: when moreover the fitted image is at least as wide and as
\* high as the tile, the rectangle is the center crop of the fitted image.
C6_ScaledLoadFillsWhenCovering ==
    LET actual == ActualDims(call.img, call.scale)
    IN  ( /\ call.op = "load_image_from_bytes_with_scale"
          /\ call.result = "Ok"
          /\ call.scale[1] > call.scale[2]
          /\ actual[1] >= tile_width
          /\ actual[2] >= tile_height )
        => \A p \in LocalPixels :
              TileContents(data, call.col, call.row)[p] =
                  GetPixel(call.img,
                           p[1] + (actual[1] - tile_width) \div 2,
                           p[2] + (actual[2] - tile_height) \div 2)

\* a load with scale > 1.0 whose fitted image is wider than the tile and as
\* high as it or higher
C6_Witness ==
    /\ call.op = "load_image_from_bytes_with_scale"
    /\ call.result = "Ok"
    /\ call.scale[1] > call.scale[2]
    /\ ActualDims(call.img, call.scale)[1] > tile_width + 1
    /\ ActualDims(call.img, call.scale)[2] >= tile_height

\* the scaled target box of a load has no area, or the scale is not positive
DegenerateScale(scale) ==
    \/ scale[1] <= 0
    \/ ScaledDim(tile_width, scale) = 0
    \/ ScaledDim(tile_height, scale) = 0

\* C7: a load of a decodable image into a cell of the grid whose scale is
\* <= 0, or whose scaled target box has zero width or height, fails with
\* InvalidScale and changes neither the pixel buffer nor the occupancy records.
C7_DegenerateScaleRejected ==
    [][ ( /\ call'.op \in LoadOps
          /\ call'.col < num_cols /\ call'.row < num_rows
          /\ call'.img.valid
          /\ DegenerateScale(call'.scale) )
        => /\ call'.result = "InvalidScale"
           /\ data' = data
           /\ loaded_tiles' = loaded_tiles ]_vars

PatternFilled(col, row) ==
    \E frame \in 0..MaxFrame :
        \A p \in LocalPixels :
            TileContents(data, col, row)[p] =
                PatternPixel(col * tile_width + p[1], row * tile_height + p[2], frame)

\* every pixel of the tile is one background color
BackgroundFilled(col, row) ==
    \E c \in Colors :
        \A p \in LocalPixels : TileContents(data, col, row)[p] = c

\* every byte of the tile is the zero new() wrote
ZeroFilled(col, row) ==
    \A p \in LocalPixels : TileContents(data, col, row)[p] = <<0, 0, 0, 0>>

RecordsInGrid ==
    \A i \in 1..Len(loaded_tiles) :
        loaded_tiles[i].col < num_cols /\ loaded_tiles[i].row < num_rows

\* a cell with a record holds what the last successful load into it wrote
OccupiedHoldLastLoad ==
    \A c \in Cells :
        Records(loaded_tiles, c[1], c[2]) # {}
            => TileContents(data, c[1], c[2]) = composited[c]

NoImagePixel(col, row) ==
    \A p \in LocalPixels : ~IsImagePixel(TileContents(data, col, row)[p])

\* C9: in every reachable state every record lies in the grid, every cell
\* with a record holds what the last successful load into it wrote, and every
\* cell without a record is pattern-filled or background-filled and holds no
\* pixel written by a load.
C9_OccupancyConsistent ==
    /\ RecordsInGrid
    /\ OccupiedHoldLastLoad
    /\ \A c \in Cells :
          Records(loaded_tiles, c[1], c[2]) = {}
              => /\ PatternFilled(c[1], c[2]) \/ BackgroundFilled(c[1], c[2])
                 /\ NoImagePixel(c[1], c[2])

\* C9, amended: a cell without a record may also still hold the zero bytes
\* of construction.
C9_OccupancyConsistentOrZero ==
    /\ RecordsInGrid
    /\ OccupiedHoldLastLoad
    /\ \A c \in Cells :
          Records(loaded_tiles, c[1], c[2]) = {}
              => /\ \/ PatternFilled(c[1], c[2])
                    \/ BackgroundFilled(c[1], c[2])
                    \/ ZeroFilled(c[1], c[2])
                 /\ NoImagePixel(c[1], c[2])

\* a cell that was loaded has been cleared, beside a pattern-filled cell
C9_Witness ==
    /\ call.op = "clear_tile"
    /\ call.result = "Ok"
    /\ loaded_tiles = << >>
    /\ \E p \in LocalPixels : IsImagePixel(composited[<<call.col, call.row>>][p])
    /\ BackgroundFilled(call.col, call.row)
    /\ \E c \in Cells : PatternFilled(c[1], c[2])

\* C10: load_image_from_bytes_with_scale(bytes, col, row, scale) leaves the
\* pixels and the occupancy records that
\* load_image_from_bytes_with_scale_and_offset(bytes, col, row, scale, 0, 0)
\* leaves from the same state.
C10_ScaleIsOffsetZero ==
    [][ ( call'.op = "load_image_from_bytes_with_scale" /\ call'.result = "Ok" )
        => /\ data' = OffsetData(data, call'.img, call'.col, call'.row,
                                 call'.scale, 0, 0)
           /\ loaded_tiles' = Upsert(loaded_tiles, call'.col, call'.row) ]_vars

====
